---- MODULE Spec2Model ----
(***************************************************************************)
(* State-machine model of the stockbruh RSS pipeline (src/stockbro.py,     *)
(* src/src/rss.py, src/src/util.py): the three commands rss-fetch,         *)
(* rss-download-html and rss-extract-fulltext running one at a time        *)
(* against the sqlite databases rss-feeds.db (tables items, html,          *)
(* progress) and rss-catalog.db (table texts).                             *)
(*                                                                         *)
(* A database is modelled by its durable (committed) contents plus, for    *)
(* the connection of the running command, the rows inserted but not yet    *)
(* committed.  A process that ends without commit loses the latter.        *)
(*                                                                         *)
(* Spec is the pipeline.  SpecTrace and SpecCleanup apply rss_trace_link   *)
(* and the extraction functions (extract_multi_tag, cleanup_by_tld) of     *)
(* src/src/rss.py to inputs drawn from bounded sets, outside the pipeline. *)
(***************************************************************************)
EXTENDS Integers, Sequences, FiniteSets, Bags, TLC

\* ------------------------------------------------------------------ bounds
\* Largest value of --maxitems tried; the smallest is -1 (type=int accepts it).
MaxItemsArg == 2
\* Longest text outside the paragraphs of a page, and most paragraphs of a page.
MaxTextLen == 1
MaxParagraphs == 3
\* Most calls of create_db in a row.
MaxCalls == 3

\* ------------------------------------------------------------- input sets
NULL == "NULL"

Guids == {"g1", "g2"}
\* Two links on finanznachrichten.de, one on a publisher's own site and one on
\* a site no branch of cleanup_by_tld names.
Links == {"fn1", "fn2", "ext", "unk"}
Titles == {"t1", "t2"}
NewsIds == {"52172551", "52206697"}

\* tldextract.extract(link): registrable domain of a link.
tldextract(link) ==
    CASE link \in {"fn1", "fn2"} -> "finanznachrichten.de"
      [] link = "unk" -> "example.com"
      [] OTHER -> "deraktionaer.de"

Entry(g, l, t) == [rss_guid |-> g, rss_link |-> l, rss_title |-> t]

\* What a feed URL can answer: a transport failure, a non-200 status, a
\* document without <rss> root, or a document with <item> elements.
RespConnectionError ==
    [kind |-> "ConnectionError", status |-> 0, rss |-> FALSE, entries |-> << >>]
Resp404 ==
    [kind |-> "response", status |-> 404, rss |-> TRUE,
     entries |-> << Entry("g2", "ext", "t2") >>]
RespNoRss ==
    [kind |-> "response", status |-> 200, rss |-> FALSE, entries |-> << >>]
RespA ==
    [kind |-> "response", status |-> 200, rss |-> TRUE,
     entries |-> << Entry("g1", "fn1", "t1"), Entry("g2", "fn2", "t1") >>]
RespB ==
    [kind |-> "response", status |-> 200, rss |-> TRUE,
     entries |-> << Entry("g1", "fn1", "t2"), Entry("g1", "ext", "t1"),
                    Entry("g1", "ext", "t1"), Entry("g2", "unk", "t1") >>]

\* cfg.items("rss-feeds")
urls == << "feed1", "feed2" >>

FeedUrls == {urls[i] : i \in 1..Len(urls)}

\* The states of the two feed servers that are tried.
FeedStates ==
    << [feed1 |-> RespA,               feed2 |-> RespB],
       [feed1 |-> Resp404,             feed2 |-> RespA],
       [feed1 |-> RespConnectionError, feed2 |-> RespB],
       [feed1 |-> RespNoRss,           feed2 |-> RespA],
       [feed1 |-> RespB,               feed2 |-> Resp404] >>

NoFeeds == 0

\* Pages a GET of a feed link can return (status is not looked at by
\* rss_trace_link): container div#artikelTextPuffer present or not, a
\* span[onclick] inside it or not, and the 8-digit tokens of its onclick value.
Pages ==
    { [container |-> FALSE, span |-> FALSE, onclick |-> << >>],
      [container |-> TRUE,  span |-> FALSE, onclick |-> << >>],
      [container |-> TRUE,  span |-> TRUE,  onclick |-> << >>],
      [container |-> TRUE,  span |-> TRUE,  onclick |-> << "52172551" >>],
      [container |-> TRUE,  span |-> TRUE,  onclick |-> << "52206697", "52172551" >>] }

RequestExceptions == {"ConnectionError", "Timeout", "HTTPError"}

\* The timeout argument of each requests.get a download run issues: << >> is
\* no argument, which is requests' default of waiting without limit.
TimeoutOf(request) ==
    CASE request = "page" -> << 3 >>
      [] request = "redirect" -> << >>
      [] request = "destination" -> << 3 >>

\* A GET to a server that accepts the connection and never answers: cut off
\* with requests.Timeout if the call carries a timeout, else the call does
\* not return.
NeverAnswered(request) ==
    IF TimeoutOf(request) = << >> THEN "hang" ELSE "Timeout"
Sqlite3Errors == {"IntegrityError", "OperationalError"}
OtherExceptions == {"NotImplementedError", "ExtractionError"}

\* Final URL of the redirect lookup per news id, a transport failure, or a
\* server that never answers. The lookup of news 52172551 ends on the
\* publisher's site, that of news 52206697 on the site without extraction rule.
RedirectOutcomes ==
    {r \in [NewsIds -> {"ext", "unk", "ConnectionError", "NoAnswer"}] :
        r["52172551"] # "unk" /\ r["52206697"] # "ext"}

\* reply.text of a successful GET of url.
HtmlOf(url) ==
    CASE url = "fn1" -> "<html>fn1</html>"
      [] url = "fn2" -> "<html>fn2</html>"
      [] url = "unk" -> "<html>unk</html>"
      [] OTHER -> "<html>ext</html>"

\* ---------------------------------------------------------- storage helpers
Key(r) == << r.rss_guid, r.rss_link >>

Keys(rows) == {Key(r) : r \in rows}

RECURSIVE SeqToSet(_)
SeqToSet(s) == IF s = << >> THEN {} ELSE {Head(s)} \cup SeqToSet(Tail(s))

\* INSERT OR IGNORE INTO items: a row whose primary key (rss_guid, rss_link)
\* is already in the table is skipped, any other is appended (next rowid).
InsertOrAppend(table, row) == Append(table, row)

InsertOrReplace(table, row) ==
    Append(SelectSeq(table, LAMBDA r : Key(r) # Key(row)), row)

InsertOrIgnore(table, row) ==
    IF Key(row) \in Keys(SeqToSet(table)) THEN table ELSE Append(table, row)

\* conn.executemany(insert_instruction, rows)
RECURSIVE ExecuteMany(_, _)
ExecuteMany(table, rows) ==
    IF rows = << >> THEN table
    ELSE ExecuteMany(InsertOrIgnore(table, Head(rows)), Tail(rows))

\* feeds_to_dataframe for one url: the records of the response.
feeds_to_dataframe_any_status(resp) ==
    IF resp.rss THEN resp.entries ELSE << >>

feeds_to_dataframe(resp) ==
    IF resp.status = 200 /\ resp.rss THEN resp.entries ELSE << >>

\* Primary keys of rss-feeds.schema / rss-catalog.schema.
html_pk(row) == << row.rss_guid, row.rss_link >>
progress_pk(row) == << row.rss_guid, row.rss_link >>
texts_pk(row) == row.url

\* Durable contents of a table after an INSERT on a connection opened with
\* the default isolation level: the row stays in the open transaction.
AutocommitInsert(durable, row) == durable \cup {row}

DurableAfterInsert(durable, row) == durable

\* cursor.fetchmany(size): stops when the size-th row has been appended; a
\* size of 0 or below is never reached and all rows are returned.
fetchmany(rows, size) ==
    IF size >= 1 /\ size < Len(rows) THEN SubSeq(rows, 1, size) ELSE rows

\* --------------------------------------------------------- selection queries
\* rss-download-html: items LEFT JOIN html USING (rss_guid, rss_link)
\* WHERE html.html IS NULL, in table order.
RECURSIVE SelectGuidLink(_)
SelectGuidLink(rows) ==
    IF rows = << >> THEN << >>
    ELSE << [rss_guid |-> Head(rows).rss_guid, rss_link |-> Head(rows).rss_link] >>
         \o SelectGuidLink(Tail(rows))

query_join_download(itemsT, htmlT) ==
    LET Missing(it) == ~ \E h \in htmlT : html_pk(h) = Key(it) /\ h.html # NULL
    IN  SelectGuidLink(SelectSeq(itemsT, Missing))

\* rss-extract-fulltext: (items LEFT JOIN progress WHERE can_delete IS NULL)
\* LEFT JOIN html WHERE html IS NOT NULL, in table order.  can_delete is an
\* INTEGER column: it is not NULL exactly when it holds an integer.
Joined(it, h) ==
    [rss_guid |-> it.rss_guid, rss_link |-> it.rss_link, rss_title |-> it.rss_title,
     dest_url |-> h.dest_url, html |-> h.html]

RECURSIVE JoinHtml(_, _)
JoinHtml(rows, htmlT) ==
    IF rows = << >> THEN << >>
    ELSE LET it == Head(rows)
             hs == {h \in htmlT : html_pk(h) = Key(it) /\ h.html # NULL}
         IN  (IF hs = {} THEN << >> ELSE << Joined(it, CHOOSE h \in hs : TRUE) >>)
             \o JoinHtml(Tail(rows), htmlT)

query_join_no_progress(itemsT, progressT, htmlT) == JoinHtml(itemsT, htmlT)

query_join_extract(itemsT, progressT, htmlT) ==
    LET Unmarked(it) ==
            ~ \E p \in progressT : progress_pk(p) = Key(it) /\ p.can_delete \in Int
    IN  JoinHtml(SelectSeq(itemsT, Unmarked), htmlT)

\* ------------------------------------------------------------ link resolver
NoPage == [container |-> FALSE, span |-> FALSE, onclick |-> << >>]

PageReplies ==
    {[exc |-> e, page |-> NoPage] : e \in {"ConnectionError", NeverAnswered("page")}}
    \cup {[exc |-> "none", page |-> p] : p \in Pages}

\* f"https://www.finanznachrichten.de/ext/nachricht-komplett-{news_id}-0.htm"
RedirectUrl(news_id) == << "nachricht-komplett", news_id >>

\* The URLs rss_trace_link(link) issues a GET for, in order.
rss_trace_requests(link, reply) ==
    IF /\ reply.exc = "none"
       /\ tldextract(link) = "finanznachrichten.de"
       /\ reply.page.container
       /\ reply.page.span
       /\ Len(reply.page.onclick) > 0
    THEN << link, RedirectUrl(reply.page.onclick[1]) >>
    ELSE << link >>

rss_trace_link_needs_marker(link, reply, redirect) ==
    IF reply.exc # "none" THEN [exc |-> reply.exc, url |-> NULL]
    ELSE IF tldextract(link) = "finanznachrichten.de" THEN
        IF ~ reply.page.container \/ ~ reply.page.span \/ Len(reply.page.onclick) = 0
            THEN [exc |-> "NotImplementedError", url |-> NULL]
        ELSE LET news_id == reply.page.onclick[1]
             IN  IF redirect[news_id] \in RequestExceptions
                 THEN [exc |-> redirect[news_id], url |-> NULL]
                 ELSE [exc |-> "none", url |-> redirect[news_id]]
    ELSE [exc |-> "NotImplementedError", url |-> NULL]

rss_trace_link_returns_link(link, reply, redirect) ==
    IF reply.exc # "none" THEN [exc |-> reply.exc, url |-> NULL]
    ELSE IF tldextract(link) = "finanznachrichten.de" THEN
        IF ~ reply.page.container THEN [exc |-> "NotImplementedError", url |-> NULL]
        ELSE IF ~ reply.page.span THEN [exc |-> "none", url |-> link]
        ELSE IF Len(reply.page.onclick) = 0
            THEN [exc |-> "NotImplementedError", url |-> NULL]
        ELSE [exc |-> "none", url |-> link]
    ELSE [exc |-> "NotImplementedError", url |-> NULL]

rss_trace_link_last_match(link, reply, redirect) ==
    IF reply.exc # "none" THEN [exc |-> reply.exc, url |-> NULL]
    ELSE IF tldextract(link) = "finanznachrichten.de" THEN
        IF ~ reply.page.container THEN [exc |-> "NotImplementedError", url |-> NULL]
        ELSE IF ~ reply.page.span THEN [exc |-> "none", url |-> link]
        ELSE IF Len(reply.page.onclick) = 0
            THEN [exc |-> "NotImplementedError", url |-> NULL]
        ELSE LET news_id == reply.page.onclick[Len(reply.page.onclick)]
             IN  IF redirect[news_id] \in RequestExceptions
                 THEN [exc |-> redirect[news_id], url |-> NULL]
                 ELSE [exc |-> "none", url |-> redirect[news_id]]
    ELSE [exc |-> "NotImplementedError", url |-> NULL]

rss_trace_link_no_token_check(link, reply, redirect) ==
    IF reply.exc # "none" THEN [exc |-> reply.exc, url |-> NULL]
    ELSE IF tldextract(link) = "finanznachrichten.de" THEN
        IF ~ reply.page.container THEN [exc |-> "NotImplementedError", url |-> NULL]
        ELSE IF ~ reply.page.span \/ Len(reply.page.onclick) = 0
            THEN [exc |-> "none", url |-> link]
        ELSE LET news_id == reply.page.onclick[1]
             IN  IF redirect[news_id] \in RequestExceptions
                 THEN [exc |-> redirect[news_id], url |-> NULL]
                 ELSE [exc |-> "none", url |-> redirect[news_id]]
    ELSE [exc |-> "NotImplementedError", url |-> NULL]

\* The news a link's page previews, if it is an appetizer page: the links of
\* the feed carry the id of their news.
NewsIdOf(link) == IF link = "fn2" THEN "52206697" ELSE "52172551"

\* What the GET of a link of the feed can answer.
PageRepliesOf(link) ==
    {r \in PageReplies :
        r.page.onclick = << >> \/ Head(r.page.onclick) = NewsIdOf(link)}

\* rss_trace_link(link), given the reply to the GET of link and the final URL
\* the redirect lookup of each news id ends at.
rss_trace_link(link, reply, redirect) ==
    IF reply.exc # "none" THEN [exc |-> reply.exc, url |-> NULL]
    ELSE IF tldextract(link) = "finanznachrichten.de" THEN
        IF ~ reply.page.container THEN [exc |-> "NotImplementedError", url |-> NULL]
        ELSE IF ~ reply.page.span THEN [exc |-> "none", url |-> link]
        ELSE IF Len(reply.page.onclick) = 0
            THEN [exc |-> "NotImplementedError", url |-> NULL]
        ELSE LET news_id == reply.page.onclick[1]
             IN  IF redirect[news_id] = "NoAnswer"
                 THEN [exc |-> NeverAnswered("redirect"), url |-> NULL]
                 ELSE IF redirect[news_id] \in RequestExceptions
                 THEN [exc |-> redirect[news_id], url |-> NULL]
                 ELSE [exc |-> "none", url |-> redirect[news_id]]
    ELSE [exc |-> "NotImplementedError", url |-> NULL]

\* The message of the NotImplementedError rss_trace_link raises for a link.
rss_trace_errmsg(link) ==
    IF tldextract(link) = "finanznachrichten.de"
    THEN "Incomplete handler" ELSE "Missing handler"

\* -------------------------------------------------------- exception handling
\* rss-download-html: the except clause an exception of the try body lands in.
DownloadHandler(exc) ==
    IF exc \in RequestExceptions THEN 203
    ELSE IF exc \in Sqlite3Errors THEN 205
    ELSE 207

\* Each of the three clauses formats the undefined name udest_urlrl into its
\* message: evaluating it raises NameError inside the handler, which no
\* clause of the same try catches.
HandlerOutcome(line) ==
    IF line \in {203, 205, 207} THEN "NameError" ELSE "logged"

\* rss-extract-fulltext: "except Exception" catches every exception class.
ExtractCaughtSqliteOnly(exc) == exc \in Sqlite3Errors

ExtractCaught(exc) ==
    exc \in RequestExceptions \cup Sqlite3Errors \cup OtherExceptions

\* The except block of rss-extract-fulltext only logs: the connection's
\* pending progress rows are what they were.
ExceptMarks(pending, rec) ==
    pending \cup {[rss_guid |-> rec.rss_guid, rss_link |-> rec.rss_link, can_delete |-> 1]}

ExceptProgress(pending, rec) == pending

\* rss.extract_fulltext(dest_url, html): a text, None, or an exception.
ExtractOutcomes ==
    { [exc |-> "none", fulltext |-> "fulltext"],
      [exc |-> "none", fulltext |-> NULL],
      [exc |-> "ExtractionError", fulltext |-> NULL] }

\* The row rss-download-html inserts: dest_url, by then the resolved URL,
\* is bound to both the rss_link and the dest_url column.
HtmlRow(guid, dest, text) ==
    [rss_guid |-> guid, rss_link |-> dest, dest_url |-> dest, html |-> text]

ProgressRow(rec) ==
    [rss_guid |-> rec.rss_guid, rss_link |-> rec.rss_link, can_delete |-> 1]

TextsRow(rec, text) ==
    [url |-> rec.dest_url, title |-> rec.rss_title, fulltext |-> text]

\* ------------------------------------------------------- fulltext extraction
\* Characters of a text; a text is a sequence of characters.
CR == "\r"
SP == " "

RECURSIVE SeqsUpTo(_, _)
SeqsUpTo(S, n) ==
    IF n = 0 THEN {<< >>}
    ELSE LET shorter == SeqsUpTo(S, n - 1)
         IN  shorter \cup {Append(s, x) : s \in shorter, x \in S}

\* A page as cleanup_by_tld sees it after bs4.BeautifulSoup(html, 'html.parser'):
\* whether the element the domain's branch looks up is in the page, the text
\* nodes of that element outside its <p> elements, and its <p> elements in
\* document order, each with its attributes ("" is attrs == {}) and its text.
ParagraphAttrs == {"", "class=TEXT"}
ParagraphTexts == {<< "a" >>, << "b", CR >>}
Paragraphs == [attrs : ParagraphAttrs, text : ParagraphTexts]

NoContainer == [container |-> FALSE, lead |-> << >>, ps |-> << >>]

Markups ==
    {NoContainer}
    \cup [container : {TRUE}, lead : SeqsUpTo({"a", CR}, MaxTextLen),
          ps : SeqsUpTo(Paragraphs, MaxParagraphs)]

\* Tag.text: the text nodes below the tag, concatenated.
RECURSIVE ParagraphsText(_)
ParagraphsText(ps) ==
    IF ps = << >> THEN << >> ELSE Head(ps).text \o ParagraphsText(Tail(ps))

TagText(html) == html.lead \o ParagraphsText(html.ps)

\* str.replace("\r", "")
RECURSIVE replace_cr(_)
replace_cr(s) ==
    IF s = << >> THEN << >>
    ELSE (IF Head(s) = CR THEN << >> ELSE << Head(s) >>) \o replace_cr(Tail(s))

\* texts[:cut] of a Python list.
Slice(texts, cut) ==
    IF cut < 0
    THEN (IF Len(texts) + cut <= 0 THEN << >> ELSE SubSeq(texts, 1, Len(texts) + cut))
    ELSE (IF cut >= Len(texts) THEN texts ELSE SubSeq(texts, 1, cut))

\* for paragraph in texts: if paragraph.attrs == {}: text = text + paragraph.text + ' '
RECURSIVE PlainLoop(_)
PlainLoop(texts) ==
    IF texts = << >> THEN << >>
    ELSE (IF Head(texts).attrs = "" THEN Head(texts).text \o << SP >> ELSE << >>)
         \o PlainLoop(Tail(texts))

\* The same loop over find_all("p", {"class": "TEXT"}), without the attrs test.
RECURSIVE ClassTextLoop(_)
ClassTextLoop(texts) ==
    IF texts = << >> THEN << >>
    ELSE (IF Head(texts).attrs = "class=TEXT" THEN Head(texts).text \o << SP >>
          ELSE << >>)
         \o ClassTextLoop(Tail(texts))

\* What a call gives: a text, or the exception it raises.
Raised(e) == [exc |-> e, text |-> << >>]
Text(t) == [exc |-> "none", text |-> t]

\* extract_single_tag(html, tag, attribute, value): html.find(...) is None
\* when the element is missing, and None.text raises AttributeError.
extract_single_tag_keep_cr(html) ==
    IF ~ html.container THEN Raised("AttributeError") ELSE Text(TagText(html))

extract_single_tag(html) ==
    IF ~ html.container THEN Raised("AttributeError")
    ELSE Text(replace_cr(TagText(html)))

\* extract_multi_tag(html, tag, attribute, value, cut): the bare except
\* swallows the AttributeError of a missing element and '' is returned.
extract_multi_tag_no_cut(html, cut) ==
    IF ~ html.container THEN << >> ELSE PlainLoop(html.ps)

extract_multi_tag(html, cut) ==
    IF ~ html.container THEN << >>
    ELSE IF cut = 0 THEN PlainLoop(html.ps)
    ELSE PlainLoop(Slice(html.ps, cut))

\* The branches of cleanup_by_tld that are one call of extract_multi_tag,
\* with the cut they pass (0 when they pass none), in source order.
MultiRules ==
    { << "ariva.de", -3 >>, << "deraktionaer.de", -1 >>,
      << "fool.de", -1 >>, << "timschaefermedia.com", 0 >>,
      << "feingold-research.com", 0 >>, << "markteinblicke.de", -2 >>,
      << "moneycab.com", -1 >>, << "t3n.de", -2 >>, << "it-times.de", 0 >>,
      << "goldinvest.de", -6 >>, << "resource-capital.ch", -3 >>,
      << "rumas.de", -2 >>, << "electrive.net", 0 >>,
      << "boerse-online.de", -4 >>, << "bullvestorbb.com", -13 >>,
      << "boerse-daily.de", 0 >>, << "finanzen.ch", -2 >>,
      << "finanztreff.de", 0 >>, << "trading-treff.de", -5 >>,
      << "start-trading.de", -7 >>, << "fuchsbriefe.de", 0 >>,
      << "ratgebergeld.at", -6 >>, << "anlegerverlag.de", 0 >>,
      << "investinghaven.com", -1 >>, << "mydividends.de", -1 >>,
      << "esg-aktien.de", 0 >>, << "ki-portal.de", 0 >>,
      << "plastverarbeiter.de", -3 >>, << "chemietechnik.de", -2 >>,
      << "de.com", -1 >>, << "bondguide.de", -1 >>,
      << "mein-geld-medien.de", -1 >>, << "boersengefluester.de", -1 >>,
      << "kgk-rubberpoint.de", 0 >>, << "boersennews.de", -8 >>,
      << "boerse-global.de", -2 >>, << "lynxbroker.de", -2 >>,
      << "anleihen-finder.de", -20 >>, << "xtb.com", -1 >>,
      << "asscompact.de", -1 >>, << "boerse.de", -1 >>,
      << "platow.de", 0 >>, << "index-radar.de", -7 >>,
      << "finance-magazin.de", -1 >>, << "pv-magazine.de", -1 >>,
      << "neue-verpackung.de", 0 >>, << "peh.de", -1 >>,
      << "euwid-recycling.de", -3 >>, << "aktien-global.de", -1 >>,
      << "automobil-produktion.de", -2 >>, << "derboersianer.com", 0 >>,
      << "plusvisionen.de", 0 >>, << "fondsdiscount.de", -2 >>,
      << "investresearch.net", 0 >>, << "rohstoffbrief.com", -7 >>,
      << "heizoel24.de", 0 >>, << "ideas-daily.de", 0 >>,
      << "aktien.guide", -2 >>, << "ntg24.de", -1 >>,
      << "kapitalmarkt.blog", -3 >>, << "world-news-monitor.de", 0 >>,
      << "miningscout.de", -1 >>, << "nebenwerte-online.de", -1 >>,
      << "ideas-magazin.de", 0 >>, << "vontobel.com", -1 >>,
      << "aktienfinder.net", -1 >>, << "smartinvestor.de", -15 >> }

\* The branches that are one call of extract_single_tag.
SingleTlds ==
    { "finanzen.at", "shareribs.com", "fondscheck.de" }

\* The branches whose body is "pass".
UnsupportedTlds ==
    { "stock-world.de", "intelligent-investieren.net",
      "scenarieconomici.it", "tichyseinblick.de", "tmx.com",
      "sg-zertifikate.de", "boerse-social.com", "clausvogt.com",
      "hsbc-zertifikate.de", "formationstrader.de", "mailchi.mp",
      "fruchtportal.de", "derfinanzinvestor.de", "youtube.com",
      "ethische-rendite.de", "deutsche-wirtschafts-nachrichten.de",
      "pharma-food.de", "onemarkets.de", "was-audio.de", "oddo-bhf.com",
      "assetstandard.com", "tradingeconomics.com", "barchart.com",
      "bnpparibas.com", "finanzen100.de", "wallstreet-online.de" }

\* The branches with code of their own.
BespokeTlds ==
    { "finanznachrichten.de", "4investors.de", "finanzen.net",
      "nebenwerte-magazin.com", "kapitalerhoehungen.de", "inv3st.de", "onvista.de",
      "anleihencheck.de", "abam-gmbh.com", "solarserver.de",
      "finanzjournalisten.de" }

MultiTlds == {r[1] : r \in MultiRules}

CutOf(tld) == (CHOOSE r \in MultiRules : r[1] = tld)[2]

\* Every domain a branch of cleanup_by_tld names, and one no branch names.
NamedTlds == BespokeTlds \cup MultiTlds \cup SingleTlds \cup UnsupportedTlds

AbsentTlds == { "example.com" }

Tlds == NamedTlds \cup AbsentTlds

\* cleanup_by_tld(html, tld) up to its return statement: the value of text,
\* or the exception that leaves the function, and whether print(tld) ran.
\* The pages of Markups hold no <font> element, so texts[:-5] of the
\* onvista.de branch is empty, and every <p> holds one text node, so
\* contents[:-9] of the 4investors.de branch is empty.
CleanupText(html, tld) ==
    CASE tld = "finanznachrichten.de" ->
            LET single == extract_single_tag(html)
            IN  IF single.exc = "none" THEN single
                ELSE Text(extract_multi_tag(html, 0))
      [] tld \in MultiTlds -> Text(extract_multi_tag(html, CutOf(tld)))
      [] tld \in SingleTlds -> extract_single_tag(html)
      [] tld = "4investors.de" ->
            IF ~ html.container THEN Raised("AttributeError")
            ELSE IF Len(html.ps) < 2 THEN Raised("IndexError")
            ELSE Text(<< >>)
      [] tld = "finanzen.net" ->
            IF ~ html.container THEN Raised("AttributeError")
            ELSE Text(ClassTextLoop(html.ps))
      [] tld = "nebenwerte-magazin.com" -> Text(extract_multi_tag(html, 0))
      [] tld = "kapitalerhoehungen.de" ->
            IF ~ html.container THEN Raised("AttributeError")
            ELSE Text(PlainLoop(Slice(html.ps, -4)))
      [] tld = "inv3st.de" ->
            IF ~ html.container THEN Raised("AttributeError")
            ELSE Text(PlainLoop(Slice(html.ps, -6)))
      [] tld = "onvista.de" ->
            IF ~ html.container THEN Text(<< >>)
            ELSE Text(extract_multi_tag(html, 0))
      [] tld = "anleihencheck.de" ->
            IF ~ html.container THEN Raised("AttributeError")
            ELSE Text(TagText(html))
      [] tld = "abam-gmbh.com" ->
            IF ~ html.container THEN Raised("AttributeError")
            ELSE Text(PlainLoop(html.ps))
      [] tld = "solarserver.de" -> Text(extract_multi_tag(html, -1))
      [] tld = "finanzjournalisten.de" ->
            IF ~ html.container THEN Raised("IndexError")
            ELSE Text(PlainLoop(html.ps))
      [] OTHER -> Text(<< >>)

\* The else branch: print(tld).
PrintedNever(tld) == FALSE

Printed(tld) == tld \notin NamedTlds

\* return text if text else None
cleanup_by_tld(html, tld) ==
    LET r == CleanupText(html, tld)
    IN  [exc |-> r.exc, none |-> r.exc = "none" /\ r.text = << >>, text |-> r.text,
         printed |-> Printed(tld)]

\* rss.extract_fulltext(dest_url, html): the registrable domain of dest_url
\* is looked up; a domain without an extraction rule gives None and no
\* exception, any other one of ExtractOutcomes.
HasRule(tld) == tld \in BespokeTlds \cup MultiTlds \cup SingleTlds

extract_fulltext(url) ==
    IF HasRule(tldextract(url)) THEN ExtractOutcomes
    ELSE {[exc |-> "none", fulltext |-> NULL]}

\* -------------------------------------------------------------------- state
VARIABLES
    items,          \* rss-feeds.db, table items (committed rows, rowid order)
    html,           \* rss-feeds.db, table html (committed rows)
    progress,       \* rss-feeds.db, table progress (committed rows)
    texts,          \* rss-catalog.db, table texts (committed rows)
    feeds,          \* rss-fetch: index in FeedStates of what the feed URLs answer
    command,        \* args.command of the running process, or "idle"
    pc,             \* position of the running process
    maxitems,       \* args.maxitems
    records,        \* the batch selected by the running command
    ii,             \* loop index
    dest_url,       \* rss-download-html: the resolved URL of the current item
    fulltext,       \* rss-extract-fulltext: the extracted text of the current item
    conn_html,      \* rows inserted into html, not yet committed
    conn_progress,  \* rows inserted into progress, not yet committed
    conn_texts,     \* rows inserted into texts, not yet committed
    successful,     \* counter of the running command
    errors,         \* keys of the batch items log.error was called for
    rows_before,    \* rss_fetch: row count before insertion
    rows_created,   \* rss_fetch: its return value
    downloaded,     \* history: (item key, dest_url) of every committed download
    conn_downloaded,\* history: the same for the rows of conn_html
    before,         \* history: items and html when the running command started
    refetch,        \* history: what the feed URLs answered to the previous
                    \*          command, if that was a completed rss-fetch
    ext_failed,     \* history: items the last completed extract run logged
    traced,         \* the calls of rss_trace_link made on their own, with results
    cleaned,        \* the call of an extraction function made on its own
    overlap,        \* rss-feeds.db and the download runs that overlap on it
    web,            \* what the outside answers while a command is repeated
    disk            \* the database files, and the calls of create_db so far

vars == << items, html, progress, texts, feeds, command, pc, maxitems, records,
           ii, dest_url, fulltext, conn_html, conn_progress, conn_texts,
           successful, errors, rows_before, rows_created, downloaded,
           conn_downloaded, before, refetch, ext_failed, traced, cleaned,
           overlap, web, disk >>

pipeline == << items, html, progress, texts, feeds, command, pc, maxitems, records,
               ii, dest_url, fulltext, conn_html, conn_progress, conn_texts,
               successful, errors, rows_before, rows_created, downloaded,
               conn_downloaded, before, refetch, ext_failed >>
pure == << traced, cleaned, overlap, web, disk >>

NoCall == [fn |-> "none"]

\* Processes that have rss-feeds.db open at the same time: two runs of
\* rss-download-html, and a run of another command that writes to the file.
Procs == {"run1", "run2"}
NoLock == "none"
OtherWriter == "other"

IdleRun ==
    [pc |-> "idle", records |-> << >>, ii |-> 0, dest_url |-> NULL,
     pending |-> EmptyBag]

NoStore ==
    [items |-> << >>, html |-> EmptyBag, lock |-> NoLock,
     run |-> [p \in Procs |-> IdleRun]]

\* The database files of the pipeline, and the tables the schema file of
\* each creates.
DbPaths == {"rss-feeds.db", "rss-catalog.db"}

SchemaTables(path) ==
    IF path = "rss-feeds.db" THEN {"items", "html", "progress"} ELSE {"texts"}

\* How a caller passes dbpath: stockbro2.py converts the configured string
\* to a pathlib.Path, stockbro.py passes the string of setup.cfg itself.
PathArgs == {"Path", "str"}

NoFile == [exists |-> FALSE, tables |-> {}]

NoDisk == [file |-> [p \in DbPaths |-> NoFile], calls |-> << >>]

\* util.create_db(dbpath, schemapath) run to its end on a path whose file
\* is as given: the file afterwards, how the call ended, and whether it
\* executed SQL. str has no is_file(): the first line raises.
create_db(file, path, arg, schema) ==
    IF arg = "str"
    THEN [file |-> file, outcome |-> "AttributeError", sql |-> FALSE]
    ELSE IF file.exists
    THEN [file |-> file, outcome |-> "returned", sql |-> FALSE]
    ELSE [file |-> [exists |-> TRUE,
                    tables |-> IF schema THEN SchemaTables(path) ELSE {}],
          outcome |-> "returned", sql |-> schema]

\* The record of a call of create_db.
CreateCall(path, arg, schema, existed, outcome, sql, changed) ==
    [path |-> path, arg |-> arg, schema |-> schema, existed |-> existed,
     outcome |-> outcome, sql |-> sql, changed |-> changed]

\* The world outside the program while a command is run again and again:
\* what the page of each link and the redirect lookup answer every time,
\* whether the GET of each destination succeeds, and the maxitems argument
\* every run is given. NoWeb: nothing fixed.
NoWeb == [k |-> 0]

DirectPage == [container |-> TRUE, span |-> FALSE, onclick |-> << >>]

PermanentPages(link) ==
    IF tldextract(link) = "finanznachrichten.de"
    THEN {r \in PageRepliesOf(link) : r.exc \in {"none", "ConnectionError"}}
    ELSE {[exc |-> "none", page |-> DirectPage]}

DownloadWebs ==
    [page : {f \in [Links -> PageReplies] : \A l \in Links : f[l] \in PermanentPages(l)},
     redirect : {r \in RedirectOutcomes : \A n \in NewsIds : r[n] # "NoAnswer"},
     dest : [Links -> {"ok", "HTTPError"}],
     k : 1 .. MaxItemsArg]

db == << items, html, progress, texts >>
conns == << conn_html, conn_progress, conn_texts, conn_downloaded >>
locals == << dest_url, fulltext >>
fetchvars == << rows_before, rows_created >>

MaxItemsArgs == (-1) .. MaxItemsArg

Ended == {"done", "crashed", "killed"}

Init ==
    /\ items = << >>
    /\ html = {}
    /\ progress = {}
    /\ texts = {}
    /\ feeds = NoFeeds
    /\ command = "idle"
    /\ pc = "idle"
    /\ maxitems = 0
    /\ records = << >>
    /\ ii = 0
    /\ dest_url = NULL
    /\ fulltext = NULL
    /\ conn_html = {}
    /\ conn_progress = {}
    /\ conn_texts = {}
    /\ successful = 0
    /\ errors = {}
    /\ rows_before = 0
    /\ rows_created = 0
    /\ downloaded = {}
    /\ conn_downloaded = {}
    /\ before = << << >>, {} >>
    /\ refetch = NoFeeds
    /\ ext_failed = {}
    /\ traced = << >>
    /\ cleaned = NoCall
    /\ overlap = NoStore
    /\ web = NoWeb
    /\ disk = NoDisk

\* ---------------------------------------------------------------- rss-fetch
\* The three commands first call util.create_db on their database paths. Here
\* the call is taken to return with the files and their tables in place, as
\* it does for a pathlib.Path of an existing database; create_db itself, and
\* the call with the string of setup.cfg that stockbro.py makes, are the
\* subject of SpecCreateDb.
\* rss_fetch up to the loop: create_db, count the rows.
StartFetch ==
    /\ command = "idle"
    /\ UNCHANGED pure
    /\ command' = "rss-fetch"
    /\ pc' = "feed"
    /\ ii' = 1
    /\ rows_before' = Len(items)
    /\ rows_created' = 0
    /\ errors' = {}
    /\ records' = << >>
    /\ before' = << items, html >>
    /\ feeds' \in 1 .. Len(FeedStates)
    /\ UNCHANGED << db, maxitems, locals, conns, successful, downloaded,
                    refetch, ext_failed >>

\* One pass of the loop: feeds_to_database([url], ...) inside try/except.
\* requests.get raising lands in "except Exception" (logged); otherwise the
\* records of the response are inserted and committed.
FetchFeed ==
    /\ command = "rss-fetch"
    /\ UNCHANGED pure
    /\ pc = "feed"
    /\ LET url == urls[ii]
           resp == FeedStates[feeds][url]
       IN  IF resp.kind # "response"
           THEN /\ errors' = errors \cup {url}
                /\ items' = items
           ELSE /\ errors' = IF resp.status = 200 THEN errors ELSE errors \cup {url}
                /\ items' = ExecuteMany(items, feeds_to_dataframe(resp))
    /\ ii' = ii + 1
    /\ pc' = IF ii = Len(urls) THEN "count" ELSE "feed"
    /\ UNCHANGED << html, progress, texts, feeds, command, maxitems, records,
                    locals, conns, successful, fetchvars, downloaded, before,
                    refetch, ext_failed >>

\* Count the rows after insertion and return the difference.
FetchCount ==
    /\ command = "rss-fetch"
    /\ UNCHANGED pure
    /\ pc = "count"
    /\ rows_created' = Len(items) - rows_before
    /\ pc' = "done"
    /\ UNCHANGED << db, feeds, command, maxitems, records, ii, locals, conns,
                    successful, errors, rows_before, downloaded, before, refetch,
                    ext_failed >>

\* -------------------------------------------------------- rss-download-html
\* create_db, connect, run the selection query, fetchmany(args.maxitems).
StartDownload ==
    /\ command = "idle"
    /\ UNCHANGED pure
    /\ \E k \in MaxItemsArgs :
          /\ maxitems' = k
          /\ records' = fetchmany(query_join_download(items, html), k)
    /\ command' = "rss-download-html"
    /\ pc' = IF records' = << >> THEN "commit" ELSE "trace"
    /\ ii' = 1
    /\ successful' = 0
    /\ errors' = {}
    /\ before' = << items, html >>
    /\ refetch' = NoFeeds
    /\ UNCHANGED << db, feeds, locals, conns, fetchvars, downloaded, ext_failed >>

\* End of one pass of the download loop.
DlNext ==
    /\ ii' = ii + 1
    /\ pc' = IF ii = Len(records) THEN "commit" ELSE "trace"
    /\ dest_url' = NULL

\* An exception of the try body: the matching except clause runs; if the
\* clause itself raises, the process ends with the transaction open.
DlExcept(exc) ==
    IF HandlerOutcome(DownloadHandler(exc)) = "logged"
    THEN /\ errors' = errors \cup {Key(records[ii])}
         /\ DlNext
         /\ UNCHANGED << db, feeds, command, maxitems, records, fulltext, conns,
                         successful, fetchvars, downloaded, before, refetch,
                         ext_failed >>
    ELSE /\ pc' = "crashed"
         /\ conn_html' = {}
         /\ conn_downloaded' = {}
         /\ UNCHANGED << db, feeds, command, maxitems, records, ii, locals,
                         conn_progress, conn_texts, successful, errors, fetchvars,
                         downloaded, before, refetch, ext_failed >>

\* A requests.get of the try body that does not return: the process stays
\* where it is, with its transaction open, until it is ended from outside.
DlHang ==
    /\ pc' = "hung"
    /\ UNCHANGED << db, feeds, command, maxitems, records, ii, locals, conns,
                    successful, errors, fetchvars, downloaded, before, refetch,
                    ext_failed >>

\* dest_url = rss.rss_trace_link(dest_url)
DlTrace ==
    /\ command = "rss-download-html"
    /\ UNCHANGED pure
    /\ pc = "trace"
    /\ \E reply \in PageRepliesOf(records[ii].rss_link), redirect \in RedirectOutcomes :
          LET r == rss_trace_link(records[ii].rss_link, reply, redirect)
          IN  IF r.exc = "none"
              THEN /\ dest_url' = r.url
                   /\ pc' = "get"
                   /\ UNCHANGED << db, feeds, command, maxitems, records, ii,
                                   fulltext, conns, successful, errors, fetchvars,
                                   downloaded, before, refetch, ext_failed >>
              ELSE IF r.exc = "hang" THEN DlHang
              ELSE DlExcept(r.exc)

\* reply = requests.get(dest_url, timeout=3); reply.raise_for_status()
DlGet ==
    /\ command = "rss-download-html"
    /\ UNCHANGED pure
    /\ pc = "get"
    /\ \E reply \in {"ok", "ConnectionError", "HTTPError", NeverAnswered("destination")} :
          IF reply = "ok"
          THEN /\ pc' = "insert"
               /\ UNCHANGED << db, feeds, command, maxitems, records, ii, locals,
                               conns, successful, errors, fetchvars, downloaded,
                               before, refetch, ext_failed >>
          ELSE IF reply = "hang" THEN DlHang
          ELSE DlExcept(reply)

\* conn.execute("INSERT INTO html ..."); successful += 1
DlInsert ==
    /\ command = "rss-download-html"
    /\ UNCHANGED pure
    /\ pc = "insert"
    /\ \E err \in {"none", "OperationalError"} :
          LET rec == records[ii]
              row == HtmlRow(rec.rss_guid, dest_url, HtmlOf(dest_url))
              exc == IF err # "none" THEN err
                     ELSE IF html_pk(row) \in {html_pk(h) : h \in html \cup conn_html}
                          THEN "IntegrityError" ELSE "none"
          IN  IF exc = "none"
              THEN /\ conn_html' = conn_html \cup {row}
                   /\ html' = DurableAfterInsert(html, row)
                   /\ conn_downloaded' = conn_downloaded \cup
                         {[rss_guid |-> rec.rss_guid, rss_link |-> rec.rss_link,
                           dest_url |-> dest_url]}
                   /\ successful' = successful + 1
                   /\ DlNext
                   /\ UNCHANGED << items, progress, texts, feeds, command, maxitems,
                                   records, fulltext, conn_progress, conn_texts,
                                   errors, fetchvars, downloaded, before, refetch,
                                   ext_failed >>
              ELSE DlExcept(exc)

\* conn.commit(); conn.close()
DlCommit ==
    /\ command = "rss-download-html"
    /\ UNCHANGED pure
    /\ pc = "commit"
    /\ html' = html \cup conn_html
    /\ downloaded' = downloaded \cup conn_downloaded
    /\ conn_html' = {}
    /\ conn_downloaded' = {}
    /\ pc' = "done"
    /\ UNCHANGED << items, progress, texts, feeds, command, maxitems, records, ii,
                    locals, conn_progress, conn_texts, successful, errors,
                    fetchvars, before, refetch, ext_failed >>

\* ----------------------------------------------------- rss-extract-fulltext
\* create_db twice, connect twice, run query_join, fetchmany(args.maxitems).
StartExtract ==
    /\ command = "idle"
    /\ UNCHANGED pure
    /\ \E k \in MaxItemsArgs :
          /\ maxitems' = k
          /\ records' = fetchmany(query_join_extract(items, progress, html), k)
    /\ command' = "rss-extract-fulltext"
    /\ pc' = IF records' = << >> THEN "commit_feeds" ELSE "extract"
    /\ ii' = 1
    /\ successful' = 0
    /\ errors' = {}
    /\ before' = << items, html >>
    /\ refetch' = NoFeeds
    /\ UNCHANGED << db, feeds, locals, conns, fetchvars, downloaded, ext_failed >>

\* End of one pass of the extract loop.
ExNext ==
    /\ ii' = ii + 1
    /\ pc' = IF ii = Len(records) THEN "commit_feeds" ELSE "extract"
    /\ fulltext' = NULL

\* An exception of the try body: "except Exception" logs it and the loop
\* goes on; an exception it does not catch ends the process.
ExExcept(exc) ==
    IF ExtractCaught(exc)
    THEN /\ errors' = errors \cup {Key(records[ii])}
         /\ conn_progress' = ExceptProgress(conn_progress, records[ii])
         /\ ExNext
         /\ UNCHANGED << db, feeds, command, maxitems, records, dest_url, conn_html,
                         conn_texts, conn_downloaded, successful, fetchvars,
                         downloaded, before, refetch, ext_failed >>
    ELSE /\ pc' = "crashed"
         /\ conn_progress' = {}
         /\ conn_texts' = {}
         /\ UNCHANGED << db, feeds, command, maxitems, records, ii, locals,
                         conn_html, conn_downloaded, successful, errors, fetchvars,
                         downloaded, before, refetch, ext_failed >>

\* fulltext = rss.extract_fulltext(dest_url, html)
ExExtract ==
    /\ command = "rss-extract-fulltext"
    /\ UNCHANGED pure
    /\ pc = "extract"
    /\ \E o \in extract_fulltext(records[ii].dest_url) :
          IF o.exc = "none"
          THEN /\ fulltext' = o.fulltext
               /\ pc' = "insert_texts"
               /\ UNCHANGED << db, feeds, command, maxitems, records, ii, dest_url,
                               conns, successful, errors, fetchvars, downloaded,
                               before, refetch, ext_failed >>
          ELSE ExExcept(o.exc)

\* conn_catalog.execute("INSERT INTO texts VALUES (?, ?, ?, ?, ?)", ...)
ExInsertTexts ==
    /\ command = "rss-extract-fulltext"
    /\ UNCHANGED pure
    /\ pc = "insert_texts"
    /\ \E err \in {"none", "OperationalError"} :
          LET row == TextsRow(records[ii], fulltext)
              exc == IF err # "none" THEN err
                     ELSE IF texts_pk(row) \in {texts_pk(t) : t \in texts \cup conn_texts}
                          THEN "IntegrityError" ELSE "none"
          IN  IF exc = "none"
              THEN /\ conn_texts' = conn_texts \cup {row}
                   /\ pc' = "insert_progress"
                   /\ UNCHANGED << db, feeds, command, maxitems, records, ii, locals,
                                   conn_html, conn_progress, conn_downloaded,
                                   successful, errors, fetchvars, downloaded, before,
                                   refetch, ext_failed >>
              ELSE ExExcept(exc)

\* conn_feeds.execute("INSERT INTO progress VALUES (?, ?, ?)", ...); successful += 1
ExInsertProgress ==
    /\ command = "rss-extract-fulltext"
    /\ UNCHANGED pure
    /\ pc = "insert_progress"
    /\ \E err \in {"none", "OperationalError"} :
          LET row == ProgressRow(records[ii])
              exc == IF err # "none" THEN err
                     ELSE IF progress_pk(row) \in
                                {progress_pk(r) : r \in progress \cup conn_progress}
                          THEN "IntegrityError" ELSE "none"
          IN  IF exc = "none"
              THEN /\ conn_progress' = conn_progress \cup {row}
                   /\ successful' = successful + 1
                   /\ ExNext
                   /\ UNCHANGED << db, feeds, command, maxitems, records, dest_url,
                                   conn_html, conn_texts, conn_downloaded, errors,
                                   fetchvars, downloaded, before, refetch,
                                   ext_failed >>
              ELSE ExExcept(exc)

\* conn_feeds.commit(); conn_feeds.close()
ExCommitFeeds ==
    /\ command = "rss-extract-fulltext"
    /\ UNCHANGED pure
    /\ pc = "commit_feeds"
    /\ progress' = progress \cup conn_progress
    /\ conn_progress' = {}
    /\ pc' = "commit_catalog"
    /\ UNCHANGED << items, html, texts, feeds, command, maxitems, records, ii,
                    locals, conn_html, conn_texts, conn_downloaded, successful,
                    errors, fetchvars, downloaded, before, refetch, ext_failed >>

\* conn_catalog.commit(); conn_catalog.close()
ExCommitCatalog ==
    /\ command = "rss-extract-fulltext"
    /\ UNCHANGED pure
    /\ pc = "commit_catalog"
    /\ texts' = texts \cup conn_texts
    /\ conn_texts' = {}
    /\ pc' = "done"
    /\ UNCHANGED << items, html, progress, feeds, command, maxitems, records, ii,
                    locals, conn_html, conn_progress, conn_downloaded, successful,
                    errors, fetchvars, downloaded, before, refetch, ext_failed >>

\* ------------------------------------------------------------- process end
\* The running process is terminated from outside (signal, power loss): what
\* its connections have not committed is rolled back.
Kill ==
    /\ command # "idle"
    /\ UNCHANGED pure
    /\ pc \notin Ended
    /\ pc' = "killed"
    /\ conn_html' = {}
    /\ conn_progress' = {}
    /\ conn_texts' = {}
    /\ conn_downloaded' = {}
    /\ ii' = 0
    /\ dest_url' = NULL
    /\ fulltext' = NULL
    /\ errors' = {}
    /\ maxitems' = 0
    /\ feeds' = NoFeeds
    /\ rows_before' = 0
    /\ rows_created' = 0
    /\ UNCHANGED << db, command, records, successful, downloaded, before, refetch,
                    ext_failed >>

\* The process is gone; the next command can be started.
Exit ==
    /\ pc \in Ended
    /\ UNCHANGED pure
    /\ refetch' = IF command = "rss-fetch" /\ pc = "done" THEN feeds ELSE NoFeeds
    /\ feeds' = NoFeeds
    /\ ext_failed' = IF command = "rss-extract-fulltext"
                     THEN (IF pc = "done" THEN errors ELSE {})
                     ELSE ext_failed
    /\ command' = "idle"
    /\ pc' = "idle"
    /\ maxitems' = 0
    /\ records' = << >>
    /\ ii' = 0
    /\ dest_url' = NULL
    /\ fulltext' = NULL
    /\ conn_html' = {}
    /\ conn_progress' = {}
    /\ conn_texts' = {}
    /\ conn_downloaded' = {}
    /\ successful' = 0
    /\ errors' = {}
    /\ rows_before' = 0
    /\ rows_created' = 0
    /\ before' = << << >>, {} >>
    /\ UNCHANGED << db, downloaded >>

Next ==
    \/ StartFetch
    \/ FetchFeed
    \/ FetchCount
    \/ StartDownload
    \/ DlTrace
    \/ DlGet
    \/ DlInsert
    \/ DlCommit
    \/ StartExtract
    \/ ExExtract
    \/ ExInsertTexts
    \/ ExInsertProgress
    \/ ExCommitFeeds
    \/ ExCommitCatalog
    \/ Kill
    \/ Exit

Spec == Init /\ [][Next]_vars

\* ------------------------------------- the extraction functions on their own
\* The cut values the branches of cleanup_by_tld pass.
Cuts == {r[2] : r \in MultiRules}

\* One call of cleanup_by_tld on a page and a registrable domain.
CallCleanup ==
    /\ cleaned = NoCall
    /\ \E markup \in Markups, tld \in Tlds :
          cleaned' = [fn |-> "cleanup_by_tld", html |-> markup, tld |-> tld, cut |-> 0,
                      result |-> cleanup_by_tld(markup, tld)]
    /\ UNCHANGED << pipeline, traced, overlap, web, disk >>

\* One call of extract_multi_tag on a page with a cut.
CallMultiTag ==
    /\ cleaned = NoCall
    /\ \E markup \in Markups, cut \in Cuts :
          cleaned' = [fn |-> "extract_multi_tag", html |-> markup, tld |-> NULL,
                      cut |-> cut, result |-> Text(extract_multi_tag(markup, cut))]
    /\ UNCHANGED << pipeline, traced, overlap, web, disk >>

NextCleanup ==
    \/ CallCleanup
    \/ CallMultiTag

SpecCleanup == Init /\ [][NextCleanup]_vars

\* ----------------------------------------------- rss_trace_link on its own
\* Where the redirect lookup of a news id ends, or how it fails.
TraceRedirects == [NewsIds -> {"fn1", "ext", "ConnectionError"}]

TraceCall(link, reply, redirect) ==
    [link |-> link, reply |-> reply, redirect |-> redirect,
     result |-> rss_trace_link(link, reply, redirect),
     requests |-> rss_trace_requests(link, reply)]

\* A call of rss_trace_link, and a later one.
TraceFirst ==
    /\ traced = << >>
    /\ \E link \in Links, reply \in PageReplies, redirect \in TraceRedirects :
          traced' = << TraceCall(link, reply, redirect) >>
    /\ UNCHANGED << pipeline, cleaned, overlap, web, disk >>

TraceSecond ==
    /\ Len(traced) = 1
    /\ \E link \in Links, reply \in PageReplies, redirect \in TraceRedirects :
          traced' = Append(traced, TraceCall(link, reply, redirect))
    /\ UNCHANGED << pipeline, cleaned, overlap, web, disk >>

NextTrace ==
    \/ TraceFirst
    \/ TraceSecond

SpecTrace == Init /\ [][NextTrace]_vars

\* ----------------------------------- download runs overlapping on one store
\* The stores an extract run can find: items of two feeds that list the same
\* article under different guids, and the html rows download runs committed
\* for some of the items whose page showed the full content.
SharedLinkItems ==
    { << Entry("g1", "fn1", "t1"), Entry("g2", "fn1", "t2") >>,
      << Entry("g1", "fn1", "t1"), Entry("g2", "fn2", "t1") >>,
      << Entry("g1", "fn1", "t1"), Entry("g2", "fn1", "t2"), Entry("g2", "fn2", "t1") >> }

DirectRows(table) ==
    {HtmlRow(it.rss_guid, it.rss_link, HtmlOf(it.rss_link)) : it \in SeqToSet(table)}

\* What extract_fulltext returns for the page of each URL, every time, when
\* it does not raise: a text or None.
ExtractWebs ==
    [text : {f \in [Links -> {"fulltext", NULL}] :
                \A l \in Links :
                    [exc |-> "none", fulltext |-> f[l]] \in extract_fulltext(l)},
     k : MaxItemsArgs]

\* The write lock of the database file is with another connection: the
\* statement gives up with sqlite3.OperationalError (database is locked).
sqlite_busy(lock, p) == lock \notin {NoLock, p}

\* conn.execute("INSERT INTO html VALUES (?, ?, ?, ?)", ...): the connection
\* sees the committed rows and the rows of its own transaction; a stored
\* primary key raises sqlite3.IntegrityError.
InsertHtmlUnchecked(committed, pending, row) ==
    [exc |-> "none", pending |-> pending (+) SetToBag({row})]

InsertHtml(committed, pending, row) ==
    IF html_pk(row) \in {html_pk(h) : h \in BagToSet(committed) \cup BagToSet(pending)}
    THEN [exc |-> "IntegrityError", pending |-> pending]
    ELSE [exc |-> "none", pending |-> pending (+) SetToBag({row})]

\* The store the runs work on: items as a completed rss-fetch left them.
OvOpen ==
    /\ overlap.items = << >>
    /\ \E resp \in {RespA, RespB} :
          overlap' = [overlap EXCEPT
                        !.items = ExecuteMany(<< >>, feeds_to_dataframe(resp))]
    /\ UNCHANGED << pipeline, traced, cleaned, web, disk >>

\* create_db, connect, run the selection query, fetchmany(args.maxitems).
OvStart(p) ==
    /\ overlap.items # << >>
    /\ overlap.run[p].pc = "idle"
    /\ \E k \in MaxItemsArgs :
          LET recs == fetchmany(query_join_download(overlap.items,
                                                    BagToSet(overlap.html)), k)
          IN  overlap' = [overlap EXCEPT
                            !.run[p] = [pc |-> IF recs = << >> THEN "commit" ELSE "trace",
                                        records |-> recs, ii |-> 1,
                                        dest_url |-> NULL, pending |-> EmptyBag]]
    /\ UNCHANGED << pipeline, traced, cleaned, web, disk >>

\* The store after the pass of the loop on the current item of run p.
OvNext(store, p) ==
    [store EXCEPT
       !.run[p].ii = @ + 1,
       !.run[p].dest_url = NULL,
       !.run[p].pc = IF store.run[p].ii = Len(store.run[p].records)
                     THEN "commit" ELSE "trace"]

\* The store after an exception of the try body of run p: the except clause
\* logs it, or raises itself and the process ends, its transaction rolled
\* back and its lock released.
OvExcept(store, p, exc) ==
    IF HandlerOutcome(DownloadHandler(exc)) = "logged"
    THEN OvNext(store, p)
    ELSE [store EXCEPT
            !.run[p].pc = "crashed",
            !.run[p].pending = EmptyBag,
            !.lock = IF @ = p THEN NoLock ELSE @]

\* dest_url = rss.rss_trace_link(dest_url)
OvTrace(p) ==
    /\ overlap.run[p].pc = "trace"
    /\ \E reply \in PageRepliesOf(overlap.run[p].records[overlap.run[p].ii].rss_link),
          redirect \in RedirectOutcomes :
          LET me == overlap.run[p]
              r == rss_trace_link(me.records[me.ii].rss_link, reply, redirect)
          IN  overlap' =
                 IF r.exc = "none"
                 THEN [overlap EXCEPT !.run[p].dest_url = r.url, !.run[p].pc = "get"]
                 ELSE IF r.exc = "hang"
                 THEN [overlap EXCEPT !.run[p].pc = "hung"]
                 ELSE OvExcept(overlap, p, r.exc)
    /\ UNCHANGED << pipeline, traced, cleaned, web, disk >>

\* reply = requests.get(dest_url, timeout=3); reply.raise_for_status()
OvGet(p) ==
    /\ overlap.run[p].pc = "get"
    /\ \E reply \in {"ok", "ConnectionError", "HTTPError", NeverAnswered("destination")} :
          overlap' =
             IF reply = "ok" THEN [overlap EXCEPT !.run[p].pc = "insert"]
             ELSE IF reply = "hang" THEN [overlap EXCEPT !.run[p].pc = "hung"]
             ELSE OvExcept(overlap, p, reply)
    /\ UNCHANGED << pipeline, traced, cleaned, web, disk >>

\* conn.execute("INSERT INTO html ..."): the first write of the transaction
\* takes the write lock of the file.
OvInsert(p) ==
    /\ overlap.run[p].pc = "insert"
    /\ LET me == overlap.run[p]
           rec == me.records[me.ii]
           row == HtmlRow(rec.rss_guid, me.dest_url, HtmlOf(me.dest_url))
           ins == InsertHtml(overlap.html, me.pending, row)
       IN  overlap' =
              IF sqlite_busy(overlap.lock, p)
              THEN OvExcept(overlap, p, "OperationalError")
              ELSE IF ins.exc # "none"
              THEN OvExcept(overlap, p, ins.exc)
              ELSE OvNext([overlap EXCEPT !.run[p].pending = ins.pending,
                                          !.lock = p], p)
    /\ UNCHANGED << pipeline, traced, cleaned, web, disk >>

\* conn.commit(); conn.close()
OvCommit(p) ==
    /\ overlap.run[p].pc = "commit"
    /\ ~ sqlite_busy(overlap.lock, p)
    /\ overlap' = [overlap EXCEPT
                     !.html = @ (+) overlap.run[p].pending,
                     !.run[p].pending = EmptyBag,
                     !.run[p].pc = "done",
                     !.lock = NoLock]
    /\ UNCHANGED << pipeline, traced, cleaned, web, disk >>

\* The process of run p is gone; the command can be started again.
OvExit(p) ==
    /\ overlap.run[p].pc \in {"done", "crashed"}
    /\ overlap' = [overlap EXCEPT !.run[p] = IdleRun]
    /\ UNCHANGED << pipeline, traced, cleaned, web, disk >>

\* A run of rss-fetch or rss-extract-fulltext writes to the same file
\* (INSERT OR IGNORE INTO items, INSERT INTO progress) and commits.
OvWriterBegin ==
    /\ overlap.items # << >>
    /\ overlap.lock = NoLock
    /\ overlap' = [overlap EXCEPT !.lock = OtherWriter]
    /\ UNCHANGED << pipeline, traced, cleaned, web, disk >>

OvWriterCommit ==
    /\ overlap.lock = OtherWriter
    /\ overlap' = [overlap EXCEPT !.lock = NoLock]
    /\ UNCHANGED << pipeline, traced, cleaned, web, disk >>

NextOverlap ==
    \/ OvOpen
    \/ \E p \in Procs : OvStart(p)
    \/ \E p \in Procs : OvTrace(p)
    \/ \E p \in Procs : OvGet(p)
    \/ \E p \in Procs : OvInsert(p)
    \/ \E p \in Procs : OvCommit(p)
    \/ \E p \in Procs : OvExit(p)
    \/ OvWriterBegin
    \/ OvWriterCommit

SpecOverlap == Init /\ [][NextOverlap]_vars

\* --------------------------- download runs repeated in an unchanging world
\* The items of the store: what a completed rss-fetch of both feeds stored.
FetchedItems ==
    ExecuteMany(ExecuteMany(<< >>, feeds_to_dataframe(RespA)),
                feeds_to_dataframe(RespB))

\* The world is fixed, the items are in the store.
WorldOfDownloads ==
    /\ web = NoWeb
    /\ command = "idle"
    /\ items = << >>
    /\ web' \in DownloadWebs
    /\ items' = FetchedItems
    /\ UNCHANGED << html, progress, texts, feeds, command, pc, maxitems, records,
                    ii, locals, conns, successful, errors, fetchvars, downloaded,
                    before, refetch, ext_failed, traced, cleaned, overlap, disk >>

\* What rss_trace_link gives for a link in the fixed world.
WebTraced(link) == rss_trace_link(link, web.page[link], web.redirect)

\* python3 stockbro.py rss-download-html --maxitems k
WebStartDownload ==
    /\ web # NoWeb
    /\ StartDownload
    /\ maxitems' = web.k

\* The steps of the run, each request answered as the world answers it and
\* the database file writable.
WebTrace ==
    /\ web # NoWeb
    /\ DlTrace
    /\ LET r == WebTraced(records[ii].rss_link)
       IN  IF r.exc = "none"
           THEN pc' = "get" /\ dest_url' = r.url
           ELSE pc' \notin {"get", "hung"}

WebGet ==
    /\ web # NoWeb
    /\ DlGet
    /\ IF web.dest[dest_url] = "ok"
       THEN pc' = "insert"
       ELSE pc' \notin {"insert", "hung"}

WebInsert ==
    /\ web # NoWeb
    /\ DlInsert
    /\ LET row == HtmlRow(records[ii].rss_guid, dest_url, HtmlOf(dest_url))
       IN  successful' = successful =>
              html_pk(row) \in {html_pk(h) : h \in html \cup conn_html}

WebCommit ==
    /\ web # NoWeb
    /\ DlCommit

WebExit ==
    /\ web # NoWeb
    /\ Exit

NextDownloads ==
    \/ WorldOfDownloads
    \/ WebStartDownload
    \/ WebTrace
    \/ WebGet
    \/ WebInsert
    \/ WebCommit
    \/ WebExit

\* The command is run again whenever the previous run has ended, and a
\* running process takes its next step.
SpecDownloads == Init /\ [][NextDownloads]_vars /\ WF_vars(NextDownloads)

\* ---------------------------- extract runs repeated in an unchanging world
\* The world is fixed; items and html rows are in the store.
WorldOfExtracts ==
    /\ web = NoWeb
    /\ command = "idle"
    /\ items = << >>
    /\ web' \in ExtractWebs
    /\ \E table \in SharedLinkItems :
          /\ items' = table
          /\ html' \in SUBSET DirectRows(table)
    /\ UNCHANGED << progress, texts, feeds, command, pc, maxitems, records,
                    ii, locals, conns, successful, errors, fetchvars, downloaded,
                    before, refetch, ext_failed, traced, cleaned, overlap, disk >>

\* python3 stockbro.py rss-extract-fulltext --maxitems k
WebStartExtract ==
    /\ web # NoWeb
    /\ StartExtract
    /\ maxitems' = web.k

\* The steps of the run: the extraction returns what it returns for the
\* page every time, and both database files are writable.
WebExtract ==
    /\ web # NoWeb
    /\ ExExtract
    /\ pc' = "insert_texts"
    /\ fulltext' = web.text[records[ii].dest_url]

WebInsertTexts ==
    /\ web # NoWeb
    /\ ExInsertTexts
    /\ pc' # "insert_progress" =>
          texts_pk(TextsRow(records[ii], fulltext))
              \in {texts_pk(t) : t \in texts \cup conn_texts}

WebInsertProgress ==
    /\ web # NoWeb
    /\ ExInsertProgress
    /\ successful' = successful =>
          progress_pk(ProgressRow(records[ii]))
              \in {progress_pk(r) : r \in progress \cup conn_progress}

WebCommitFeeds ==
    /\ web # NoWeb
    /\ ExCommitFeeds

WebCommitCatalog ==
    /\ web # NoWeb
    /\ ExCommitCatalog

NextExtracts ==
    \/ WorldOfExtracts
    \/ WebStartExtract
    \/ WebExtract
    \/ WebInsertTexts
    \/ WebInsertProgress
    \/ WebCommitFeeds
    \/ WebCommitCatalog
    \/ WebExit

\* The command is run again whenever the previous run has ended, and a
\* running process takes its next step.
SpecExtracts == Init /\ [][NextExtracts]_vars /\ WF_vars(NextExtracts)

\* ------------------------------------------------- create_db calls in a row
\* A call of create_db that runs to its end.
CreateDb ==
    /\ Len(disk.calls) < MaxCalls
    /\ \E path \in DbPaths, arg \in PathArgs, schema \in BOOLEAN :
          LET file == disk.file[path]
              r == create_db(file, path, arg, schema)
          IN  disk' = [file |-> [disk.file EXCEPT ![path] = r.file],
                       calls |-> Append(disk.calls,
                                    CreateCall(path, arg, schema, file.exists,
                                               r.outcome, r.sql, r.file # file))]
    /\ UNCHANGED << pipeline, traced, cleaned, overlap, web >>

\* A call of create_db whose process is ended after sqlite3.connect has
\* created the file (or that fails to open the schema file) and before
\* executescript has run all statements of the schema.
CreateDbInterrupted ==
    /\ Len(disk.calls) < MaxCalls
    /\ \E path \in DbPaths, schema \in BOOLEAN :
          /\ ~ disk.file[path].exists
          /\ \E done \in SUBSET SchemaTables(path) :
                /\ done # SchemaTables(path)
                /\ schema \/ done = {}
                /\ disk' = [file |-> [disk.file EXCEPT
                                        ![path] = [exists |-> TRUE, tables |-> done]],
                            calls |-> Append(disk.calls,
                                         CreateCall(path, "Path", schema, FALSE,
                                                    "interrupted", done # {}, TRUE))]
    /\ UNCHANGED << pipeline, traced, cleaned, overlap, web >>

\* rss.feeds_to_database on a path without file: it creates the file and the
\* table items itself.
FeedsToDatabase ==
    /\ ~ disk.file["rss-feeds.db"].exists
    /\ disk' = [disk EXCEPT
                  !.file["rss-feeds.db"] = [exists |-> TRUE, tables |-> {"items"}]]
    /\ UNCHANGED << pipeline, traced, cleaned, overlap, web >>

NextCreateDb ==
    \/ CreateDb
    \/ CreateDbInterrupted
    \/ FeedsToDatabase

SpecCreateDb == Init /\ [][NextCreateDb]_vars





\* =================================================================== claims
Batch == {records[i] : i \in 1 .. Len(records)}

DownloadRunning ==
    command = "rss-download-html" /\ pc \in {"trace", "get", "insert", "commit"}

ExtractSelected ==
    command = "rss-extract-fulltext"
    /\ pc \in {"extract", "insert_texts", "insert_progress", "commit_feeds"}

HasMarker(rec) == \E p \in progress : progress_pk(p) = Key(rec)

\* Keys of the items the extract selection query returns on the committed state.
ExtractEligible == {Key(r) : r \in SeqToSet(query_join_extract(items, progress, html))}

\* C1: an item for which a download run has committed an HtmlRecord is never
\* in the batch of a later download run, whether its resolved URL equals its
\* feed link or not.
C1_DownloadAntiJoin ==
    DownloadRunning =>
        \A rec \in Batch : ~ \E d \in downloaded : Key(d) = Key(rec)

\* C2: the batch an extract run selects holds only items without a committed
\* ProgressMarker and with an HtmlRecord of their own (guid, link).
C2_ExtractAntiJoin ==
    ExtractSelected =>
        \A rec \in Batch :
            /\ ~ HasMarker(rec)
            /\ \E it \in SeqToSet(items) : Key(it) = Key(rec)
            /\ \E h \in html : html_pk(h) = Key(rec) /\ h.dest_url = rec.dest_url

C2_Witness ==
    /\ ExtractSelected
    /\ records # << >>
    /\ progress # {}

\* C3: a failing item of a download batch does not end the run: no download
\* run ends in an exception.
C3_DownloadFailureIsolation ==
    ~ (command = "rss-download-html" /\ pc = "crashed")

\* C4: an exception raised for one item of an extract batch is caught and
\* logged, the run never ends in an exception, and a run that finished has
\* attempted every item of its batch and logged only items of the batch.
C4_ExtractFailureIsolation ==
    command = "rss-extract-fulltext" =>
        /\ pc # "crashed"
        /\ errors \subseteq Keys(Batch)
        /\ pc = "done" => ii = Len(records) + 1
        /\ pc = "done" => Cardinality(errors) + successful = Len(records)

C4_Witness ==
    /\ command = "rss-extract-fulltext"
    /\ pc = "done"
    /\ errors # {}
    /\ successful >= 1

\* C5: a fetch run that directly follows a completed fetch run with the same
\* feed content leaves the items relation as it was, without a second row for
\* any (guid, link), and returns an insert count of zero.
C5_FetchIdempotent ==
    (command = "rss-fetch" /\ pc = "done" /\ refetch = feeds) =>
        /\ rows_created = 0
        /\ items = before[1]
        /\ Cardinality(Keys(SeqToSet(items))) = Len(items)

C5_Witness ==
    /\ command = "rss-fetch"
    /\ pc = "done"
    /\ refetch = feeds
    /\ Len(items) >= 2

\* C6: a download run and an extract run started with maxitems = k attempt
\* at most k items (none when k is zero or below).
C6_BatchBound ==
    (command \in {"rss-download-html", "rss-extract-fulltext"} /\ pc \notin Ended) =>
        Len(records) <= (IF maxitems >= 0 THEN maxitems ELSE 0)

\* C7: every row of the html relation is keyed by the (guid, feed link) of an
\* existing item it was downloaded for, and holds that download's resolved URL.
C7_HtmlKeyIntegrity ==
    \A h \in html :
        \E d \in downloaded :
            /\ html_pk(h) = Key(d)
            /\ h.dest_url = d.dest_url
            /\ \E it \in SeqToSet(items) : Key(it) = Key(d)

\* Outcome (a) of C8: the text row of the item's dest_url is there and the
\* item has its marker.
OutcomeDone(rec) ==
    /\ HasMarker(rec)
    /\ \E t \in texts : t.url = rec.dest_url

\* Outcome (b) of C8 without its last part: an error was logged, no marker set.
OutcomeFailed(rec) ==
    /\ Key(rec) \in errors
    /\ ~ HasMarker(rec)

\* C8 as claimed: after a completed extract run every item of the batch is in
\* exactly one of the outcomes (a) and (b), and an item in (b) is in the batch
\* of the next extract run.
C8_ExtractPostcondition ==
    /\ (command = "rss-extract-fulltext" /\ pc = "done") =>
          \A rec \in Batch : OutcomeDone(rec) # OutcomeFailed(rec)
    /\ (command = "rss-extract-fulltext" /\ pc # "killed") =>
          ext_failed \subseteq Keys(Batch)

\* C8 as amended: after a completed extract run every item of the batch is in
\* exactly one of (a) and (b'), where (b') is: an error was logged, no marker
\* was set and the item stays eligible for the extract selection; the next
\* extract run selects it whenever its maxitems does not cut the batch short.
C8_ExtractPostconditionAmended ==
    /\ (command = "rss-extract-fulltext" /\ pc = "done") =>
          \A rec \in Batch :
              OutcomeDone(rec) # (OutcomeFailed(rec) /\ Key(rec) \in ExtractEligible)
    /\ command # "rss-extract-fulltext" => ext_failed \subseteq ExtractEligible
    /\ (ExtractSelected /\ (maxitems <= 0 \/ maxitems >= Cardinality(ExtractEligible))) =>
          ext_failed \subseteq Keys(Batch)

C8_Witness ==
    /\ ExtractSelected
    /\ ext_failed # {}
    /\ maxitems >= Cardinality(ExtractEligible)
    /\ Len(records) >= 2

\* C9: a download run that is terminated before it finishes leaves the
\* committed html relation as it was when the run started, every committed
\* row is a whole record, and every item of the batch is returned again by
\* the download selection query.
C9_DownloadInterruption ==
    (command = "rss-download-html" /\ pc \in {"killed", "crashed"}) =>
        /\ html = before[2]
        /\ \A h \in html : h.dest_url \in Links /\ h.html = HtmlOf(h.dest_url)
        /\ Batch \subseteq SeqToSet(query_join_download(items, html))

C9_Witness ==
    /\ command = "rss-download-html"
    /\ pc = "killed"
    /\ successful >= 1
    /\ Len(records) >= 2

\* C10: when an extract run is terminated at any point, the committed state
\* has no item with a ProgressMarker but without the text row of its dest_url,
\* and no text row whose items all lack a ProgressMarker.
C10_ExtractCrashAtomicity ==
    (command = "rss-extract-fulltext" /\ pc = "killed") =>
        /\ \A p \in progress :
              \A h \in html :
                  html_pk(h) = progress_pk(p) => \E t \in texts : t.url = h.dest_url
        /\ \A t \in texts :
              \E h \in html :
                  /\ h.dest_url = t.url
                  /\ \E p \in progress : progress_pk(p) = html_pk(h)

\* ------------------------------------------------------------ C11 .. C18
IsCleanup == cleaned.fn = "cleanup_by_tld"

\* C11 (Extraction null-safety): for every registrable domain (with a rule,
\* recognised but unsupported, or absent from the registry) and every page,
\* also one whose container element or paragraphs are missing, the extraction
\* function returns a text or null and never raises.
C11_ExtractionNullSafety ==
    IsCleanup => cleaned.result.exc = "none"

\* C12 (Domains without a usable rule): for a domain no branch names the
\* extraction function returns null and reports the domain as unrecognised;
\* for a recognised but unsupported domain it returns null and does not
\* report it; both whatever the page.
C12_NoUsableRule ==
    IsCleanup =>
        /\ cleaned.tld \in AbsentTlds =>
              /\ cleaned.result.exc = "none"
              /\ cleaned.result.none
              /\ cleaned.result.printed
        /\ cleaned.tld \in UnsupportedTlds =>
              /\ cleaned.result.exc = "none"
              /\ cleaned.result.none
              /\ ~ cleaned.result.printed

\* An unrecognised domain was given a page that holds a container with text
\* and paragraphs.
C12_Witness ==
    /\ IsCleanup
    /\ cleaned.tld \in AbsentTlds
    /\ cleaned.html.container
    /\ Len(cleaned.html.ps) >= 2
    /\ cleaned.result.printed

IsFn(link) == tldextract(link) = "finanznachrichten.de"

TracedCalls == {traced[i] : i \in 1 .. Len(traced)}

\* C13 (Link resolution of an unsupported domain): for every feed link whose
\* registrable domain has no resolution rule, rss_trace_link fails with
\* NotImplementedError, whatever the outcome of fetching the link's page
\* (success, error status, timeout or connection failure).
C13_UnsupportedDomain ==
    \A c \in TracedCalls :
        ~ IsFn(c.link) => c.result.exc = "NotImplementedError"

IsDirect(c) ==
    /\ IsFn(c.link)
    /\ c.reply.exc = "none"
    /\ c.reply.page.container
    /\ ~ c.reply.page.span

\* C14 (Link resolution of a direct page): for a link of the supported domain
\* whose page holds the content container and no span with an onclick
\* attribute inside it, rss_trace_link returns the feed link unchanged and
\* issues no second request.
C14_DirectPage ==
    \A c \in TracedCalls :
        IsDirect(c) =>
            /\ c.result.exc = "none"
            /\ c.result.url = c.link
            /\ c.requests = << c.link >>

C14_Witness ==
    \E c \in TracedCalls : IsDirect(c) /\ c.result.url = "fn2"

\* The page holds the container, the preview marker and an 8-digit token in
\* it, and the GET of the redirect-lookup URL of the first token came back.
IsAppetizer(c) ==
    /\ IsFn(c.link)
    /\ c.reply.exc = "none"
    /\ c.reply.page.container
    /\ c.reply.page.span
    /\ Len(c.reply.page.onclick) >= 1

FirstId(c) == Head(c.reply.page.onclick)

LookupEnded(c) == c.redirect[FirstId(c)] \notin RequestExceptions

\* C15 (Link resolution of an appetizer page), as stated: rss_trace_link
\* returns the final URL of a GET on the redirect-lookup URL synthesised from
\* the first 8-digit token of the marker, and never returns the feed link.
C15_AppetizerPage ==
    \A c \in TracedCalls :
        (IsAppetizer(c) /\ LookupEnded(c)) =>
            /\ c.result.exc = "none"
            /\ c.result.url = c.redirect[FirstId(c)]
            /\ c.requests = << c.link, RedirectUrl(FirstId(c)) >>
            /\ c.result.url # c.link

\* C15 amended: the same without the last part; the result is the feed link
\* exactly when the lookup's redirects end at the feed link, and a lookup
\* that fails makes rss_trace_link fail the same way.
C15_AppetizerPageAmended ==
    \A c \in TracedCalls :
        IsAppetizer(c) =>
            /\ c.requests = << c.link, RedirectUrl(FirstId(c)) >>
            /\ LookupEnded(c) =>
                  /\ c.result.exc = "none"
                  /\ c.result.url = c.redirect[FirstId(c)]
                  /\ (c.result.url = c.link) = (c.redirect[FirstId(c)] = c.link)
            /\ ~ LookupEnded(c) => c.result.exc = c.redirect[FirstId(c)]

\* A marker with two tokens whose lookups end differently; the first counts.
C15_Witness ==
    \E c \in TracedCalls :
        /\ IsAppetizer(c)
        /\ Len(c.reply.page.onclick) = 2
        /\ c.redirect[c.reply.page.onclick[1]] = "ext"
        /\ c.redirect[c.reply.page.onclick[2]] = "fn1"
        /\ c.result.url = "ext"

SamePage ==
    /\ Len(traced) = 2
    /\ traced[1].link = traced[2].link
    /\ traced[1].reply.exc = "none"
    /\ traced[1].reply = traced[2].reply

WithoutCR(s) == SelectSeq(s, LAMBDA c : c # CR)

SingleModeTlds == SingleTlds \cup {"finanznachrichten.de"}

SingleModeCall ==
    /\ IsCleanup
    /\ cleaned.tld \in SingleModeTlds
    /\ cleaned.html.container

\* C17 (Single-mode extraction), as stated: for a page of a single-mode domain
\* that holds the rule's container, the extraction result equals the text of
\* the container with every carriage return removed and nothing else changed.
C17_SingleMode ==
    SingleModeCall =>
        /\ cleaned.result.exc = "none"
        /\ ~ cleaned.result.none
        /\ cleaned.result.text = WithoutCR(TagText(cleaned.html))

\* C17 amended: it does when that text is not empty, and is null when it is.
C17_SingleModeAmended ==
    SingleModeCall =>
        /\ cleaned.result.exc = "none"
        /\ cleaned.result.text = WithoutCR(TagText(cleaned.html))
        /\ cleaned.result.none = (WithoutCR(TagText(cleaned.html)) = << >>)

\* A container whose text holds two carriage returns and other characters.
C17_Witness ==
    /\ SingleModeCall
    /\ cleaned.tld = "finanznachrichten.de"
    /\ cleaned.html.lead = << CR >>
    /\ Len(cleaned.html.ps) = 2
    /\ cleaned.result.text = << "b", "a" >>

\* The plain paragraphs of P after dropping n paragraphs from its end.
DropLast(P, n) == IF n >= Len(P) THEN << >> ELSE SubSeq(P, 1, Len(P) - n)

PlainOf(P) == SelectSeq(P, LAMBDA p : p.attrs = "")

Kept(c) == PlainOf(DropLast(c.html.ps, 0 - c.cut))

\* Texts joined by single spaces.
RECURSIVE SpaceJoined(_)
SpaceJoined(P) ==
    IF P = << >> THEN << >>
    ELSE IF Len(P) = 1 THEN P[1].text
    ELSE P[1].text \o << SP >> \o SpaceJoined(Tail(P))

\* Texts each followed by a space.
RECURSIVE SpaceEnded(_)
SpaceEnded(P) ==
    IF P = << >> THEN << >> ELSE P[1].text \o << SP >> \o SpaceEnded(Tail(P))

MultiModeCall ==
    /\ cleaned.fn = "extract_multi_tag"
    /\ cleaned.html.container

\* C18 (Multi-mode extraction with trim), as stated: with trim value t and a
\* container holding the paragraph sequence P, the result is the space-joined
\* concatenation of the texts of the plain paragraphs of P after dropping |t|
\* paragraphs from the end; with t = 0 none is dropped; paragraphs with
\* attributes never contribute.
C18_MultiMode ==
    MultiModeCall => cleaned.result.text = SpaceJoined(Kept(cleaned))

\* C18 amended: the result is the texts of those paragraphs, each followed by
\* one space.
C18_MultiModeAmended ==
    MultiModeCall => cleaned.result.text = SpaceEnded(Kept(cleaned))

\* Three paragraphs, plain, with attributes and plain, and a trim of -1.
C18_Witness ==
    /\ MultiModeCall
    /\ cleaned.cut = -1
    /\ Len(cleaned.html.ps) = 3
    /\ cleaned.html.ps[1].attrs = ""
    /\ cleaned.html.ps[2].attrs # ""
    /\ cleaned.html.ps[3].attrs = ""
    /\ cleaned.result.text = cleaned.html.ps[1].text \o << SP >>

\* ------------------------------------------------------------ C19 .. C20
\* The request of a feed failed or its status is not 2xx.
FeedFailed(resp) == resp.kind # "response" \/ resp.status \notin 200 .. 299

FetchDone == command = "rss-fetch" /\ pc = "done"

GoodFeeds == {u \in FeedUrls : ~ FeedFailed(FeedStates[feeds][u])}

NoRuleItem(rec) == ~ HasRule(tldextract(rec.dest_url))

\* C20 (Items whose destination domain has no extraction rule): an extract
\* run on such an item logs an error and sets no ProgressMarker for it, so
\* the item stays selected by the extract selection of every later run.
C20_NoRuleRetried ==
    (command = "rss-extract-fulltext" /\ pc = "done") =>
        \A rec \in Batch :
            NoRuleItem(rec) =>
                /\ Key(rec) \in errors
                /\ ~ HasMarker(rec)
                /\ Key(rec) \in ExtractEligible

\* The keys the download selection query returns once the open transaction
\* of the running process is closed the way its next position closes it.
DownloadEligibleAfter(htmlT) == Keys(SeqToSet(query_join_download(items, htmlT)))

\* C21 (Download fetch failure): when the HTTP fetch of the current item's
\* destination page fails, the error is logged for that item and the run
\* goes on; no html row is written for the item, every table and the rows
\* the run has inserted so far are left as they were, and the item is still
\* returned by the download selection query.
C21_FetchFailure ==
    [][(command = "rss-download-html" /\ pc = "get" /\ pc' \notin {"insert", "killed"}) =>
          /\ Key(records[ii]) \in errors'
          /\ pc' \in {"trace", "commit"}
          /\ << items, html, progress, texts >>' = << items, html, progress, texts >>
          /\ conn_html' = conn_html
          /\ Key(records[ii]) \in DownloadEligibleAfter(html \cup conn_html')]_vars

\* C22 (Download termination and timeouts): a download run attempts at most
\* maxitems items, and since every outbound request of the run (the page
\* fetch and the redirect lookup of the resolver, the destination fetch)
\* carries a timeout, no request to a server that never answers leaves the
\* run waiting without limit.
C22_DownloadTerminates ==
    command = "rss-download-html" =>
        /\ pc # "hung"
        /\ (maxitems >= 1 => Len(records) <= maxitems)

\* C23 (Item immutability): a row of items, once stored, keeps its rowid
\* and every field through every step of every fetch, download and extract
\* run, and is never deleted; an entry re-ingested with the same (guid, link)
\* and another title leaves the stored row as it is.
C23_ItemImmutability ==
    [][/\ Len(items') >= Len(items)
       /\ \A i \in 1 .. Len(items) : items'[i] = items[i]]_vars

\* A completed fetch run in which a feed delivered an entry with the key of
\* a stored row and another title than the stored one.
C23_Witness ==
    /\ FetchDone
    /\ \E i \in 1 .. Len(items), u \in GoodFeeds :
          \E e \in SeqToSet(FeedStates[feeds][u].entries) :
              /\ Key(e) = Key(items[i])
              /\ e.rss_title # items[i].rss_title

\* At most one row per primary key in a table held as a bag of rows.
OneRowPerKey(table) ==
    \A r \in BagToSet(table) :
        /\ CopiesIn(r, table) = 1
        /\ \A q \in BagToSet(table) : html_pk(q) = html_pk(r) => q = r

\* C24 (HtmlRecord uniqueness and stability): whatever download runs do on
\* one store, one after another or two at the same time, the committed html
\* table never holds two rows of one key, and no step of any run changes or
\* removes a committed row.
C24_HtmlUniqueStable ==
    /\ [] OneRowPerKey(overlap.html)
    /\ [][\A r \in BagToSet(overlap.html) :
             CopiesIn(r, overlap.html') = CopiesIn(r, overlap.html)]_vars

\* Two runs at the same time on the same key: one holds the row in its open
\* transaction, the other is about to insert a row of that key.
C24_Witness ==
    \E p \in Procs, q \in Procs :
        /\ p # q
        /\ overlap.run[p].pc = "commit"
        /\ overlap.run[q].pc = "insert"
        /\ LET you == overlap.run[q]
               row == HtmlRow(you.records[you.ii].rss_guid, you.dest_url,
                              HtmlOf(you.dest_url))
           IN  BagIn(row, overlap.run[p].pending)

\* An item whose resolution and destination fetch succeed in the fixed world.
WouldSucceed(it) ==
    /\ WebTraced(it.rss_link).exc = "none"
    /\ web.dest[WebTraced(it.rss_link).url] = "ok"

\* A download run has committed an html row for the item.
HasRecord(it) == \E d \in downloaded : Key(d) = Key(it)

\* C25 (Download progress under failures): with download runs repeated on a
\* fixed set of items with maxitems = k >= 1, every item whose resolution
\* and fetch succeed eventually has an html row committed for it, whatever
\* the number of other items that fail on every run.
C25_DownloadProgress ==
    <>(/\ web # NoWeb
       /\ \A i \in 1 .. Len(items) : WouldSucceed(items[i]) => HasRecord(items[i]))

\* C26 (Stage hand-over): an item a download run committed an html row for,
\* and that has no ProgressMarker, is in the batch of an extract run whose
\* maxitems does not cut the selection short, with the dest_url and the html
\* of its own download; whether the resolved URL is the feed link or not.
C26_StageHandOver ==
    (ExtractSelected /\ (maxitems <= 0 \/ Len(records) < maxitems)) =>
        \A d \in downloaded :
            ~ HasMarker(d) =>
                \E rec \in Batch :
                    /\ Key(rec) = Key(d)
                    /\ rec.dest_url = d.dest_url
                    /\ rec.html = HtmlOf(d.dest_url)

\* The items of the store joined with their html rows.
HandedOver == SeqToSet(JoinHtml(items, html))

\* C27 (Shared destination convergence): with extract runs repeated on a
\* store in which two items of different guid have html rows of the same
\* dest_url, and the extraction not raising, both items eventually have
\* their ProgressMarker and texts holds exactly one row of that URL.
C27_SharedDestination ==
    <>(/\ web # NoWeb
       /\ \A a \in HandedOver, b \in HandedOver :
             (a.rss_guid # b.rss_guid /\ a.dest_url = b.dest_url) =>
                 /\ HasMarker(a)
                 /\ HasMarker(b)
                 /\ Cardinality({t \in texts : t.url = a.dest_url}) = 1)

\* The page of the link was fetched and lacks the content container, or
\* holds the preview marker without an 8-digit token in its value.
MarkersMissing(c) ==
    /\ c.reply.exc = "none"
    /\ \/ ~ c.reply.page.container
       \/ c.reply.page.span /\ Len(c.reply.page.onclick) = 0

\* C28 (Link resolution with missing markers): for a link of the supported
\* domain, rss_trace_link raises NotImplementedError exactly when the page
\* lacks the content container or its preview marker holds no 8-digit token;
\* the message is 'Incomplete handler', no redirect lookup is requested and
\* no URL is returned.
C28_MissingMarkers ==
    \A c \in TracedCalls :
        IsFn(c.link) =>
            /\ (c.result.exc = "NotImplementedError") = MarkersMissing(c)
            /\ MarkersMissing(c) =>
                  /\ rss_trace_errmsg(c.link) = "Incomplete handler"
                  /\ c.requests = << c.link >>
                  /\ c.result.url = NULL

\* A call on a page with the marker and no token in it, and a call on a page
\* without the container.
C28_Witness ==
    /\ \E c \in TracedCalls :
          /\ IsFn(c.link)
          /\ c.reply.exc = "none"
          /\ c.reply.page.span
          /\ c.reply.page.onclick = << >>
          /\ c.result.exc = "NotImplementedError"
    /\ \E c \in TracedCalls :
          /\ IsFn(c.link)
          /\ c.reply.exc = "none"
          /\ ~ c.reply.page.container
          /\ c.result.exc = "NotImplementedError"

CreateCalls == {disk.calls[i] : i \in 1 .. Len(disk.calls)}

\* C29 (Schema bootstrap): once a call of create_db with a schema path has
\* been made for a database path and not been interrupted, the database
\* holds the tables of the schema, whatever calls came before it; and a call
\* on a path whose file exists executes no SQL and changes nothing.
C29_SchemaBootstrap ==
    \A c \in CreateCalls :
        /\ (c.schema /\ c.outcome # "interrupted") =>
              /\ disk.file[c.path].exists
              /\ SchemaTables(c.path) \subseteq disk.file[c.path].tables
        /\ c.existed => (~ c.sql /\ ~ c.changed)

====
